---- MODULE Spec2Model ----
\* Client play-state lifecycle of src/client/state_manager/game.rs (GamePlugin):
\* the frame loop of the engine (First, PreUpdate, StateTransition, Update),
\* the OnEnter(GameState::Game) hook `setup`, the per-frame systems registered
\* by GamePlugin::build with their run conditions, and the resources they touch.
EXTENDS Integers, Sequences, FiniteSets, TLC

\* ---------------------------------------------------------------- bounds
MaxTicks == 4
MaxRingTicks == 203

\* ------------------------------------------------------ program constants
VisualizerCap == 200
\* AmbientLight.brightness 1.06, in hundredths
Brightness == 106

\* ---------------------------------------------------------- input domains
Addrs == {"a1", "a2"}
Msgs == {"e1", "e2"}
Players == {"p1"}

\* optional values (Option<T>, or a resource that may be absent from the world)
None == {}
Some(x) == {x}
The(o) == CHOOSE x \in o : TRUE

VARIABLES
    pc,              \* schedule of the frame that runs next / is running
    pending,         \* Update systems that have not yet run in this frame
    ticks,           \* frames started
    transitionOrder, \* order of the two apply_state_transition systems
    windows,         \* primary windows that exist during the frame
    gameState,       \* State<GameState>
    nextGameState,   \* NextState<GameState>
    playState,       \* State<PlayState>
    nextPlayState,   \* NextState<PlayState>
    res,             \* world resources: client, transport, ambient, lobby
    connectionAddr,  \* ConnectionAddr resource
    keyPressed,      \* Input<KeyCode>.pressed contains F1
    keyJustPressed,  \* Input<KeyCode>.just_pressed contains F1
    eventsA,         \* Events<NetcodeTransportError>: older buffer
    eventsB,         \* Events<NetcodeTransportError>: newer buffer
    visualizer,      \* RenetClientVisualizer<200>
    show_visualizer, \* Local<bool> of update_visulizer_system
    terminated,      \* the process panicked
    panicMsg,        \* message the process terminated with
    sessions,        \* sessions created so far (identity of the next one)
    ran,             \* history: systems (and drawings) executed in this frame
    setupRuns,       \* history: runs of setup
    gameEntries,     \* history: transitions of GameState into Game
    playLog,         \* history: transitions of PlayState, <<from, to>>
    pressesOdd,      \* history: the number of distinct presses of F1 is odd
    gamePressesOdd,  \* history: so is the number of those on frames in Game
    samples,         \* history: frames on which the visualizer sampled
    runs,            \* history: executions of each Update system in this frame
    gameFrames,      \* history: frames whose outer state is Game
    everConnected,   \* history: a transport has reported connected
    openTicks,       \* history: frames on which the Connection Gate was open
    gatedRuns        \* history: executions of each gated system so far

vars == <<pc, pending, ticks, transitionOrder, windows, gameState,
          nextGameState,
          playState, nextPlayState, res, connectionAddr, keyPressed,
          keyJustPressed, eventsA, eventsB, visualizer, show_visualizer,
          terminated, panicMsg, sessions, ran, setupRuns, gameEntries,
          playLog, pressesOdd, gamePressesOdd, samples, runs, gameFrames,
          everConnected, openTicks, gatedRuns>>

\* ------------------------------------------------------------------ types
PlayStates == {"Main", "State", "Disabled"}
\* variant: #[default] placed on Main
PlayStateDefault_main == "Main"
PlayStateDefault == "Disabled"
GameStates == {"Menu", "Game"}
GameStateDefault == "Menu"

GatedSystems == {"client_sync_players", "client_sync_players_state",
                 "mouse_button_system"}
UpdateSystems == GatedSystems \cup {"panic_on_error_system",
                 "update_visulizer_system", "egui_center_cursor_system"}
\* the systems other than the error sink, in the order build registers them
UpdateOrder == <<"update_visulizer_system", "egui_center_cursor_system",
                 "client_sync_players", "client_sync_players_state",
                 "mouse_button_system">>

\* ------------------------------------------------------- visualizer buffer
\* RenetClientVisualizer::<200>::new: a circular array of VisualizerCap
\* samples, all default (0). Only the slots written so far are stored; a slot
\* outside the stored ones reads as the default.
NewVisualizer == [queue |-> [i \in {} |-> 0], cursor |-> 0]

Slot(v, i) == IF i \in DOMAIN v.queue THEN v.queue[i] ELSE 0

\* add_network_info: write at the cursor, advance it modulo the capacity
add_network_info(v, sample) ==
    [queue |-> [i \in DOMAIN v.queue \cup {v.cursor} |->
                    IF i = v.cursor THEN sample ELSE v.queue[i]],
     cursor |-> (v.cursor + 1) % VisualizerCap]

\* the buffer in arrival order, oldest first
as_vec(v) ==
    [i \in 1..VisualizerCap |-> Slot(v, (v.cursor + i - 1) % VisualizerCap)]

\* ---------------------------------------------------------------- session
\* new_renet_client(addr): one connection attempt, not yet connected
new_renet_client(addr, sid) ==
    <<[sid |-> sid, addr |-> addr],
      [sid |-> sid, addr |-> addr, connected |-> FALSE]>>

AmbientLightDefault == [color |-> "default", brightness |-> "default"]
ClientLobbyDefault == {}

\* variant: the lobby is initialised only when none exists (init_resource)
SetupCommands_keep_lobby(addr, sid) ==
    LET pair == new_renet_client(addr, sid) IN
    << [name |-> "client", value |-> pair[1]],
       [name |-> "transport", value |-> pair[2]],
       [name |-> "ambient",
        value |-> [AmbientLightDefault EXCEPT !.brightness = Brightness]],
       [name |-> "lobby",
        value |-> IF res.lobby = None THEN ClientLobbyDefault
                  ELSE The(res.lobby)] >>

\* the commands setup queues, in order
SetupCommands(addr, sid) ==
    LET pair == new_renet_client(addr, sid) IN
    << [name |-> "client", value |-> pair[1]],
       [name |-> "transport", value |-> pair[2]],
       [name |-> "ambient",
        value |-> [AmbientLightDefault EXCEPT !.brightness = Brightness]],
       [name |-> "lobby", value |-> ClientLobbyDefault] >>

\* Commands::insert_resource applied in queue order, replacing a prior instance
RECURSIVE ApplyDeferred(_, _)
ApplyDeferred(r, cmds) ==
    IF cmds = <<>> THEN r
    ELSE ApplyDeferred([r EXCEPT ![Head(cmds).name] = Some(Head(cmds).value)],
                       Tail(cmds))

\* ------------------------------------------------------------ run conditions
InGame == gameState = "Game"
InPlayMain == playState = "Main"
client_connected == res.transport # None /\ The(res.transport).connected
\* variant: the tuple is gated on the outer state only
ConnectionGate_state_only == InGame
ConnectionGate == client_connected /\ InGame

PendingErrors == eventsA \o eventsB

\* the numbers of primary windows that can exist during a frame
Windows == 0..2

\* ------------------------------------------------------------------- Init
Init ==
    /\ pc = "Update"
    /\ pending = {}
    /\ ticks = 0
    /\ transitionOrder \in {<<"GameState", "PlayState">>, <<"PlayState", "GameState">>}
    /\ windows = 1
    /\ gameState = GameStateDefault
    /\ nextGameState = None
    /\ playState = PlayStateDefault
    /\ nextPlayState = None
    /\ res = [client |-> None, transport |-> None, ambient |-> None, lobby |-> None]
    /\ connectionAddr \in Addrs
    /\ keyPressed = FALSE
    /\ keyJustPressed = FALSE
    /\ eventsA = <<>>
    /\ eventsB = <<>>
    /\ visualizer = NewVisualizer
    /\ show_visualizer = FALSE
    /\ terminated = FALSE
    /\ panicMsg = ""
    /\ sessions = 0
    /\ ran = {}
    /\ setupRuns = 0
    /\ gameEntries = 0
    /\ playLog = <<>>
    /\ pressesOdd = FALSE
    /\ gamePressesOdd = FALSE
    /\ samples = 0
    /\ runs = [s \in UpdateSystems |-> 0]
    /\ gameFrames = 0
    /\ everConnected = FALSE
    /\ openTicks = 0
    /\ gatedRuns = [s \in GatedSystems |-> 0]

\* variable groups
schedVars == <<pc, pending, ticks, transitionOrder, windows>>
stateVars == <<gameState, nextGameState, playState, nextPlayState>>
inputVars == <<keyPressed, keyJustPressed>>
eventVars == <<eventsA, eventsB>>
vizVars == <<visualizer, show_visualizer, samples>>
panicVars == <<terminated, panicMsg>>
setupVars == <<res, nextPlayState, sessions, setupRuns, ran>>
histVars == <<gameEntries, playLog, pressesOdd, gamePressesOdd, gameFrames,
             everConnected, openTicks>>

\* ------------------------------------------------------------ frame start
\* First schedule: Events::update swaps the two buffers and clears the older
FirstB(bound) ==
    /\ ~terminated
    /\ pc = "Update"
    /\ pending = {}
    /\ ticks < bound
    /\ ticks' = ticks + 1
    /\ eventsA' = eventsB
    /\ eventsB' = <<>>
    /\ ran' = {}
    /\ runs' = [s \in UpdateSystems |-> 0]
    /\ windows' \in Windows
    /\ pc' = "PreUpdate"
    /\ UNCHANGED <<pending, transitionOrder, stateVars, res, connectionAddr,
                   inputVars, vizVars, panicVars, sessions, setupRuns,
                   histVars, gatedRuns>>

First == FirstB(MaxTicks)

\* PreUpdate: the keyboard input system; `down` is the key's physical state.
\* just_pressed is cleared every frame and set only when the key goes down.
keyboard_input_system(down) ==
    /\ ~terminated
    /\ pc = "PreUpdate"
    /\ keyJustPressed' = (down /\ ~keyPressed)
    /\ keyPressed' = down
    /\ pressesOdd' = IF down /\ ~keyPressed THEN ~pressesOdd ELSE pressesOdd
    /\ pc' = "PreUpdateNet"
    /\ UNCHANGED <<pending, ticks, transitionOrder, windows, stateVars, res,
                   connectionAddr, eventVars, vizVars, panicVars, sessions,
                   ran, runs, setupRuns, gameEntries, playLog,
                   gamePressesOdd, gameFrames, everConnected, openTicks,
                   gatedRuns>>

\* PreUpdate: the transport is driven when it exists; it reports whether it is
\* connected and may send one NetcodeTransportError event
transport_update(conn, err) ==
    /\ ~terminated
    /\ pc = "PreUpdateNet"
    /\ IF res.transport = None
       THEN /\ conn = FALSE
            /\ err = None
            /\ UNCHANGED <<res, eventsB>>
       ELSE /\ res' = [res EXCEPT !.transport =
                          Some([The(@) EXCEPT !.connected = conn])]
            /\ eventsB' = IF err = None THEN eventsB
                          ELSE Append(eventsB, The(err))
    /\ everConnected' = (everConnected \/ client_connected')
    /\ pc' = "StateTransition1"
    /\ UNCHANGED <<pending, ticks, transitionOrder, windows, stateVars,
                   connectionAddr, inputVars, eventsA, vizVars, panicVars,
                   sessions, ran, runs, setupRuns, gameEntries, playLog,
                   pressesOdd, gamePressesOdd, gameFrames, openTicks,
                   gatedRuns>>

\* variant: the state is requested but the inserts are never applied
setup_no_install ==
    /\ res' = res
    /\ sessions' = sessions + 1
    /\ nextPlayState' = Some("Main")
    /\ setupRuns' = setupRuns + 1
    /\ ran' = ran \cup {"setup"}

\* variant: the wrong PlayState variant is requested
setup_wrong_state ==
    /\ res' = ApplyDeferred(res, SetupCommands(connectionAddr, sessions + 1))
    /\ sessions' = sessions + 1
    /\ nextPlayState' = Some("State")
    /\ setupRuns' = setupRuns + 1
    /\ ran' = ran \cup {"setup"}

\* ------------------------------------------------------------------ setup
\* OnEnter(GameState::Game): the queued inserts are applied when the OnEnter
\* schedule ends; the NextState<PlayState> write is immediate
setup ==
    /\ res' = ApplyDeferred(res, SetupCommands(connectionAddr, sessions + 1))
    /\ sessions' = sessions + 1
    /\ nextPlayState' = Some("Main")
    /\ setupRuns' = setupRuns + 1
    /\ ran' = ran \cup {"setup"}

\* variant: setup registered as a per-frame system of the Game state
ApplyGameState_every_frame ==
    /\ nextGameState' = None
    /\ gameState' = IF nextGameState # None THEN The(nextGameState)
                    ELSE gameState
    /\ gameEntries' = IF gameState # "Game" /\ gameState' = "Game"
                      THEN gameEntries + 1 ELSE gameEntries
    /\ IF gameState' = "Game" THEN setup ELSE UNCHANGED setupVars
    /\ UNCHANGED <<playState, playLog>>

\* ------------------------------------------------------- state transitions
\* apply_state_transition::<GameState>: takes the queued state; when it
\* differs from the current one the state changes and OnEnter runs
ApplyGameState ==
    /\ nextGameState' = None
    /\ IF nextGameState # None /\ The(nextGameState) # gameState
       THEN /\ gameState' = The(nextGameState)
            /\ IF The(nextGameState) = "Game"
               THEN /\ gameEntries' = gameEntries + 1
                    /\ setup
               ELSE UNCHANGED <<gameEntries, setupVars>>
       ELSE UNCHANGED <<gameState, gameEntries, setupVars>>
    /\ UNCHANGED <<playState, playLog>>

\* apply_state_transition::<PlayState>
ApplyPlayState ==
    /\ nextPlayState' = None
    /\ IF nextPlayState # None /\ The(nextPlayState) # playState
       THEN /\ playState' = The(nextPlayState)
            /\ playLog' = Append(playLog, <<playState, The(nextPlayState)>>)
       ELSE UNCHANGED <<playState, playLog>>
    /\ UNCHANGED <<gameState, nextGameState, gameEntries, res, sessions,
                   setupRuns, ran>>

\* StateTransition schedule: the two systems in the order the schedule fixed
StateTransition(k) ==
    /\ ~terminated
    /\ pc = IF k = 1 THEN "StateTransition1" ELSE "StateTransition2"
    /\ IF transitionOrder[k] = "GameState" THEN ApplyGameState ELSE ApplyPlayState
    /\ pc' = IF k = 1 THEN "StateTransition2" ELSE "Update"
    /\ pending' = IF k = 1 THEN pending ELSE UpdateSystems
    /\ gamePressesOdd' = IF k = 2 /\ keyJustPressed /\ gameState' = "Game"
                         THEN ~gamePressesOdd ELSE gamePressesOdd
    /\ gameFrames' = IF k = 2 /\ gameState' = "Game"
                     THEN gameFrames + 1 ELSE gameFrames
    /\ openTicks' = IF k = 2 /\ ConnectionGate'
                    THEN openTicks + 1 ELSE openTicks
    /\ UNCHANGED <<ticks, transitionOrder, windows, connectionAddr, inputVars,
                   eventVars, vizVars, panicVars, pressesOdd, runs,
                   everConnected, gatedRuns>>

\* ---------------------------------------------------------- Update systems
\* A system of the Update schedule is taken up once per frame. The schedule
\* orders none of them; those that cannot stop the process commute (they write
\* disjoint state) and are taken up in registration order, while
\* panic_on_error_system is taken up at every position among them.
Scheduled(name) ==
    /\ ~terminated
    /\ pc = "Update"
    /\ name \in pending
    /\ \/ name = "panic_on_error_system"
       \/ \E i \in 1..Len(UpdateOrder) :
            /\ UpdateOrder[i] = name
            /\ \A j \in 1..(i - 1) : UpdateOrder[j] \notin pending
    /\ pending' = pending \ {name}
    /\ UNCHANGED <<pc, ticks, transitionOrder, windows>>

\* the schedule runs the system's body / skips it on a false run condition
Executed(name) ==
    /\ runs' = [runs EXCEPT ![name] = @ + 1]
    /\ gatedRuns' = IF name \in GatedSystems
                    THEN [gatedRuns EXCEPT ![name] = @ + 1]
                    ELSE gatedRuns
Skipped(name) == UNCHANGED <<runs, gatedRuns>>

\* a system parameter Res<T> whose resource is absent panics the process
MissingResource(name) ==
    /\ terminated' = TRUE
    /\ panicMsg' = name

\* EguiContexts::ctx_mut returns the egui context of the primary window and
\* panics when there is no primary window
ctx_mut ==
    IF windows = 0
    THEN terminated' = TRUE /\ panicMsg' = "ctx_mut"
    ELSE UNCHANGED panicVars

\* variant: the toggle reads pressed(F1) instead of just_pressed(F1)
update_visulizer_system_held ==
    /\ visualizer' = add_network_info(visualizer, samples + 1)
    /\ samples' = samples + 1
    /\ show_visualizer' = IF keyPressed THEN ~show_visualizer
                          ELSE show_visualizer
    /\ IF show_visualizer' THEN ctx_mut ELSE UNCHANGED panicVars
    /\ ran' = ran \cup {"update_visulizer_system"}
                  \cup (IF show_visualizer' /\ windows # 0
                        THEN {"show_window"} ELSE {})

\* variant: the sample is taken only while the overlay is shown
update_visulizer_system_shown_only ==
    /\ show_visualizer' = IF keyJustPressed THEN ~show_visualizer
                          ELSE show_visualizer
    /\ visualizer' = IF show_visualizer'
                     THEN add_network_info(visualizer, samples + 1)
                     ELSE visualizer
    /\ samples' = samples + 1
    /\ IF show_visualizer' THEN ctx_mut ELSE UNCHANGED panicVars
    /\ ran' = ran \cup {"update_visulizer_system"}
                  \cup (IF show_visualizer' /\ windows # 0
                        THEN {"show_window"} ELSE {})

\* variant: switching the overlay starts the buffer afresh
update_visulizer_system_clear_on_toggle ==
    /\ visualizer' = IF keyJustPressed THEN NewVisualizer
                     ELSE add_network_info(visualizer, samples + 1)
    /\ samples' = samples + 1
    /\ show_visualizer' = IF keyJustPressed THEN ~show_visualizer
                          ELSE show_visualizer
    /\ IF show_visualizer' THEN ctx_mut ELSE UNCHANGED panicVars
    /\ ran' = ran \cup {"update_visulizer_system"}
                  \cup (IF show_visualizer' /\ windows # 0
                        THEN {"show_window"} ELSE {})

\* variant: no sample is taken while the transport is not connected
update_visulizer_system_connected_only ==
    /\ visualizer' = IF client_connected
                     THEN add_network_info(visualizer, samples + 1)
                     ELSE visualizer
    /\ samples' = IF client_connected THEN samples + 1 ELSE samples
    /\ show_visualizer' = IF keyJustPressed THEN ~show_visualizer
                          ELSE show_visualizer
    /\ IF show_visualizer' THEN ctx_mut ELSE UNCHANGED panicVars
    /\ ran' = ran \cup {"update_visulizer_system"}
                  \cup (IF show_visualizer' /\ windows # 0
                        THEN {"show_window"} ELSE {})

\* update_visulizer_system: sample, toggle on just_pressed(F1), and if shown
\* draw into the context that ctx_mut returns.
\* The sample is tagged with its arrival number.
update_visulizer_system ==
    /\ visualizer' = add_network_info(visualizer, samples + 1)
    /\ samples' = samples + 1
    /\ show_visualizer' = IF keyJustPressed THEN ~show_visualizer
                          ELSE show_visualizer
    /\ IF show_visualizer' THEN ctx_mut ELSE UNCHANGED panicVars
    /\ ran' = ran \cup {"update_visulizer_system"}
                  \cup (IF show_visualizer' /\ windows # 0
                        THEN {"show_window"} ELSE {})

\* variant: the sampling system is registered without a run condition
RunVisualizer_ungated ==
    /\ Scheduled("update_visulizer_system")
    /\ Executed("update_visulizer_system")
    /\ IF res.client = None
       THEN MissingResource("RenetClient") /\ UNCHANGED <<vizVars, ran>>
       ELSE update_visulizer_system
    /\ UNCHANGED <<stateVars, res, connectionAddr, inputVars, eventVars,
                   sessions, setupRuns, histVars>>

\* variant: the sampling system is a member of the gated tuple
RunVisualizer_gated ==
    /\ Scheduled("update_visulizer_system")
    /\ IF ConnectionGate
       THEN /\ Executed("update_visulizer_system")
            /\ update_visulizer_system
       ELSE /\ Skipped("update_visulizer_system")
            /\ UNCHANGED <<vizVars, ran, panicVars>>
    /\ UNCHANGED <<stateVars, res, connectionAddr, inputVars, eventVars,
                   sessions, setupRuns, histVars>>

\* update_visulizer_system.run_if(in_state(GameState::Game))
RunVisualizer ==
    /\ Scheduled("update_visulizer_system")
    /\ IF InGame
       THEN /\ Executed("update_visulizer_system")
            /\ IF res.client = None
               THEN MissingResource("RenetClient") /\ UNCHANGED <<vizVars, ran>>
               ELSE update_visulizer_system
       ELSE /\ Skipped("update_visulizer_system")
            /\ UNCHANGED <<vizVars, ran, panicVars>>
    /\ UNCHANGED <<stateVars, res, connectionAddr, inputVars, eventVars,
                   sessions, setupRuns, histVars>>

\* egui_center_cursor_system: draws the crosshair when exactly one primary
\* window exists, else returns
egui_center_cursor_system ==
    /\ ctx_mut
    /\ ran' = ran \cup {"egui_center_cursor_system"}
                  \cup (IF windows = 1 THEN {"crosshair"} ELSE {})

\* egui_center_cursor_system.run_if(in_state(PlayState::Main))
RunCrosshair ==
    /\ Scheduled("egui_center_cursor_system")
    /\ IF InPlayMain
       THEN /\ Executed("egui_center_cursor_system")
            /\ egui_center_cursor_system
       ELSE /\ Skipped("egui_center_cursor_system")
            /\ UNCHANGED <<ran, panicVars>>
    /\ UNCHANGED <<stateVars, res, connectionAddr, inputVars, eventVars,
                   vizVars, sessions, setupRuns, histVars>>

\* the sync and input systems; client_sync_players keeps the roster
GatedBody(name) ==
    /\ ran' = ran \cup {name}
    /\ IF name = "client_sync_players"
       THEN \E roster \in SUBSET Players :
                res' = [res EXCEPT !.lobby = Some(roster)]
       ELSE UNCHANGED res

\* variant: a system makes up on an open frame for the frames it was skipped
RunGated_catch_up(name) ==
    /\ Scheduled(name)
    /\ IF ConnectionGate
       THEN /\ runs' = [runs EXCEPT ![name] = ticks - gatedRuns[name]]
            /\ gatedRuns' = [gatedRuns EXCEPT ![name] = ticks]
            /\ GatedBody(name)
       ELSE Skipped(name) /\ UNCHANGED <<ran, res>>
    /\ UNCHANGED <<stateVars, connectionAddr, inputVars, eventVars, vizVars,
                   panicVars, sessions, setupRuns, histVars>>

\* (client_sync_players, client_sync_players_state, mouse_button_system, ..)
\*   .run_if(client_connected()).run_if(in_state(GameState::Game))
RunGated(name) ==
    /\ Scheduled(name)
    /\ IF ConnectionGate
       THEN Executed(name) /\ GatedBody(name)
       ELSE Skipped(name) /\ UNCHANGED <<ran, res>>
    /\ UNCHANGED <<stateVars, connectionAddr, inputVars, eventVars, vizVars,
                   panicVars, sessions, setupRuns, histVars>>

\* variant: the events are read and logged, the process goes on
panic_on_error_system_swallow ==
    /\ ran' = ran \cup {"panic_on_error_system"}
    /\ UNCHANGED panicVars

\* panic_on_error_system: the first unread event panics with its message
panic_on_error_system ==
    /\ ran' = ran \cup {"panic_on_error_system"}
    /\ IF PendingErrors # <<>>
       THEN /\ terminated' = TRUE
            /\ panicMsg' = Head(PendingErrors)
       ELSE UNCHANGED panicVars

\* panic_on_error_system is a member of the gated tuple
RunPanicOnError ==
    /\ Scheduled("panic_on_error_system")
    /\ IF ConnectionGate
       THEN Executed("panic_on_error_system") /\ panic_on_error_system
       ELSE Skipped("panic_on_error_system") /\ UNCHANGED <<ran, panicVars>>
    /\ UNCHANGED <<stateVars, res, connectionAddr, inputVars, eventVars,
                   vizVars, sessions, setupRuns, histVars>>

\* ------------------------------------------------------------- environment
\* another system of the frame requests an outer state
RequestGameState(s) ==
    /\ ~terminated
    /\ pc = "Update"
    /\ pending = {}
    /\ nextGameState = None
    /\ nextGameState' = Some(s)
    /\ UNCHANGED <<schedVars, gameState, playState, nextPlayState, res,
                   connectionAddr, inputVars, eventVars, vizVars, panicVars,
                   sessions, ran, runs, gatedRuns, setupRuns,
                   histVars>>

\* the address is configured outside the Game state
SetConnectionAddr(a) ==
    /\ ~terminated
    /\ pc = "Update"
    /\ pending = {}
    /\ gameState # "Game"
    /\ nextGameState = None
    /\ a # connectionAddr
    /\ connectionAddr' = a
    /\ UNCHANGED <<schedVars, stateVars, res, inputVars, eventVars, vizVars,
                   panicVars, sessions, ran, runs, gatedRuns, setupRuns,
                   histVars>>

\* -------------------------------------------------------------------- Next
KeyboardInput == \E down \in BOOLEAN : keyboard_input_system(down)
TransportUpdate ==
    \E conn \in BOOLEAN : \E err \in {None} \cup {Some(m) : m \in Msgs} :
        transport_update(conn, err)
StateTransitions == \E k \in 1..2 : StateTransition(k)
Gated == \E name \in GatedSystems : RunGated(name)
RequestState == \E s \in GameStates : RequestGameState(s)
ConfigureAddr == \E a \in Addrs : SetConnectionAddr(a)

Next ==
    \/ First
    \/ KeyboardInput
    \/ TransportUpdate
    \/ StateTransitions
    \/ RunVisualizer
    \/ RunCrosshair
    \/ Gated
    \/ RunPanicOnError
    \/ RequestState
    \/ ConfigureAddr

Spec == Init /\ [][Next]_vars

\* ------------------------------------------------- long-run specification
\* The same frame loop run for more frames than the visualizer holds samples:
\* the Game state is requested at start-up and kept, the transport stays
\* quiet and the primary window open; the key is pressed and released freely.
RingFirst == FirstB(MaxRingTicks) /\ windows' = 1
RingTransportUpdate == transport_update(FALSE, None)
RingRequestState == ticks = 0 /\ RequestGameState("Game")

NextRing ==
    \/ RingFirst
    \/ KeyboardInput
    \/ RingTransportUpdate
    \/ StateTransitions
    \/ RunVisualizer
    \/ RunCrosshair
    \/ Gated
    \/ RunPanicOnError
    \/ RingRequestState

SpecRing == Init /\ [][NextRing]_vars

\* ------------------------------------------------------------------ claims
SetupResources ==
    /\ res.client # None
    /\ res.transport # None
    /\ The(res.client).sid = The(res.transport).sid
    /\ res.ambient = Some([AmbientLightDefault EXCEPT !.brightness = Brightness])
    /\ res.lobby # None

FrameEnd == pc = "Update" /\ pending = {}

\* C1: whenever PlayState is Main, or the transition to Main is queued, the
\* session pair, the ambient light of setup and the lobby are installed.
C1_InstallThenTransition ==
    (playState = "Main" \/ nextPlayState = Some("Main")) => SetupResources

C1_Witness ==
    /\ playState = "Main"
    /\ "setup" \in ran
    /\ "egui_center_cursor_system" \in ran

\* C2: a gated system has run in a frame only if in that frame the outer state
\* is Game and the transport reports connected.
C2_ConnectionGate ==
    \A s \in GatedSystems : s \in ran => (gameState = "Game" /\ client_connected)

C2_Witness == FrameEnd /\ GatedSystems \subseteq ran

\* C3 (as claimed): no frame start discards a transport-error event: every
\* event sent is read by the error sink, which terminates the process.
C3_NoErrorDropped == [][ticks' # ticks => eventsA = <<>>]_vars

\* C4: the frame in which the error sink runs with an event pending ends the
\* process in that frame with the message of the first pending event, and
\* nothing happens once the process has terminated.
C4_FailFast ==
    [][ /\ ~terminated
        /\ ("panic_on_error_system" \in ran' /\ "panic_on_error_system" \notin ran
              /\ PendingErrors # <<>>)
           => (terminated' /\ panicMsg' = Head(PendingErrors) /\ ticks' = ticks) ]_vars

C4_Witness ==
    /\ terminated
    /\ Len(PendingErrors) = 2
    /\ PendingErrors[1] # PendingErrors[2]
    /\ panicMsg = PendingErrors[1]

\* C5: until setup has run, PlayState is Disabled and no change is queued.
C5_DisabledBeforeBootstrap ==
    setupRuns = 0 => (playState = "Disabled" /\ nextPlayState = None)

C5_Witness == setupRuns = 0 /\ ticks >= 3 /\ FrameEnd /\ keyPressed

\* C6: after n sampling frames the buffer holds, oldest first, the last
\* min(n, 200) samples in arrival order, behind 200 - min(n, 200) defaults.
C6_RingBuffer ==
    LET held == as_vec(visualizer) IN
    /\ DOMAIN held = 1..200
    /\ \A i \in 1..200 :
          held[i] = IF samples - 200 + i >= 1 THEN samples - 200 + i ELSE 0

C6_Witness == samples = 202 /\ as_vec(visualizer)[1] = 3

C8_SetupOncePerEntry ==
    [][ /\ (setupRuns' # setupRuns) <=> (gameState # "Game" /\ gameState' = "Game")
        /\ setupRuns' \in {setupRuns, setupRuns + 1}
        /\ sessions' - sessions = setupRuns' - setupRuns ]_vars

C8_Witness == setupRuns = 2 /\ sessions = 2 /\ gameEntries = 2

\* C9: PlayState changes at most once, from Disabled to Main, after setup has
\* run, and is never State.
C9_PlayTransitions ==
    /\ playLog \in {<<>>, << <<"Disabled", "Main">> >>}
    /\ playState = (IF playLog = <<>> THEN "Disabled" ELSE "Main")
    /\ playLog # <<>> => setupRuns >= 1
    /\ nextPlayState \in {None, Some("Main")}

C9_Witness == setupRuns = 2 /\ Len(playLog) = 1 /\ pc = "Update"

\* C10: in the frame in which setup ran, the installed pair is the newest
\* session, made for the configured address and not connected, the lobby is
\* empty, the ambient light is the default with brightness 1.06, and
\* PlayState is Main or its transition to Main is queued.
C10_BootstrapPostState ==
    "setup" \in ran =>
        /\ res.client = Some([sid |-> sessions, addr |-> connectionAddr])
        /\ res.transport = Some([sid |-> sessions, addr |-> connectionAddr,
                                 connected |-> FALSE])
        /\ res.lobby = Some({})
        /\ res.ambient = Some([color |-> "default", brightness |-> 106])
        /\ (playState = "Main" \/ nextPlayState = Some("Main"))

C10_Witness == "setup" \in ran /\ setupRuns = 2 /\ FrameEnd

\* the sampling system of the current frame has been taken up
Sampled == pc = "Update" /\ ticks > 0 /\ "update_visulizer_system" \notin pending

C13_FailureAbsorbed ==
    ~everConnected =>
        /\ ~terminated
        /\ \A s \in GatedSystems \cup {"panic_on_error_system"} : runs[s] = 0
        /\ setupRuns > 0 => (playState = "Main" \/ nextPlayState = Some("Main"))

\* C14: the step that takes up the crosshair system executes it exactly when
\* PlayState is Main, whatever the Connection Gate; the process is not
\* terminated by it; and when it draws no crosshair it changes nothing.
C14_CrosshairIffMain ==
    [][ ("egui_center_cursor_system" \in pending
            /\ "egui_center_cursor_system" \notin pending')
        => /\ runs'["egui_center_cursor_system"] = 1 <=> playState = "Main"
           /\ ~terminated'
           /\ "crosshair" \notin ran' =>
                 UNCHANGED <<stateVars, res, inputVars, eventVars, vizVars>> ]_vars

\* C15: whenever the outer state is not Game, PlayState is Disabled and the
\* crosshair system has not executed in the frame.
C15_PlaySubState ==
    gameState # "Game" =>
        /\ playState = "Disabled"
        /\ runs["egui_center_cursor_system"] = 0

\* the frame is over: every system was taken up, or the process terminated
TickOver == (FrameEnd /\ ticks > 0) \/ terminated

\* C16 as stated: on every frame on which the Connection Gate is open each
\* gated system executes exactly once, and the executions of a gated system
\* are as many as the frames on which the gate was open.
C16_EveryOpenTickRunsAll ==
    TickOver => \A s \in GatedSystems :
        /\ ConnectionGate => runs[s] = 1
        /\ gatedRuns[s] = openTicks

\* C16 amended: on a frame that runs to its end each gated system executes
\* once if the gate is open and not at all if it is closed, however many
\* closed frames went before; on a frame cut short by termination it executes
\* at most once; so its executions are as many as the frames with the gate
\* open, less the frame of the termination if it had not yet run in it.
C16_OncePerCompletedOpenTick ==
    \A s \in GatedSystems :
        /\ FrameEnd => /\ runs[s] = IF ConnectionGate /\ ticks > 0 THEN 1 ELSE 0
                       /\ gatedRuns[s] = openTicks
        /\ runs[s] <= 1
        /\ runs[s] = 1 => ConnectionGate
        /\ gatedRuns[s] \in {openTicks - 1, openTicks}
        /\ gatedRuns[s] < openTicks => (pc = "Update" /\ s \in pending)

C16_Witness ==
    /\ FrameEnd /\ ~terminated /\ ConnectionGate
    /\ ticks = 4 /\ gameFrames = 3 /\ openTicks = 1
    /\ \A s \in GatedSystems : runs[s] = 1 /\ gatedRuns[s] = 1

\* C17: in a frame in which the sampling system has executed, setup has run
\* and the session pair it inserts is installed; the system never finds the
\* client resource missing.
C17_SampleNeedsSession ==
    /\ runs["update_visulizer_system"] > 0 =>
            /\ setupRuns > 0
            /\ res.client # None /\ res.transport # None
            /\ The(res.client).sid = sessions
    /\ ~(terminated /\ panicMsg = "RenetClient")

C17_Witness ==
    /\ "setup" \in ran
    /\ runs["update_visulizer_system"] = 1
    /\ setupRuns = 2
    /\ samples = 2

\* C18: a step in which setup runs leaves the buffer and the display flag as
\* they are; the buffer and the flag change only in the Update schedule of a
\* frame whose outer state is Game; and the only change of the buffer, with
\* or without a toggle, is the frame's sample appended.
C18_DiagnosticsFrame ==
    [][ /\ setupRuns' # setupRuns => UNCHANGED <<visualizer, show_visualizer>>
        /\ (visualizer' # visualizer \/ show_visualizer' # show_visualizer)
             => (gameState = "Game" /\ pc = "Update")
        /\ (visualizer' # visualizer \/ show_visualizer' # show_visualizer)
             => visualizer' = add_network_info(visualizer, samples + 1) ]_vars

C18_Witness ==
    /\ "setup" \in ran /\ setupRuns = 2
    /\ samples = 1 /\ Slot(visualizer, 0) = 1
    /\ pressesOdd /\ ~gamePressesOdd /\ ~show_visualizer

====
